---- MODULE Spec2Model ----
(***************************************************************************)
(* Model of the PrivateGPT bridge server (package main).  The bridge is    *)
(* stateless: every handler serves one request from the idle state to a    *)
(* response.  One specification per handler starts at the handler's entry: *)
(*   SpecDeleteAll  deleteAllFilesHandler                                  *)
(*   SpecListFiles  listFilesHandler                                       *)
(*   SpecChat       chatHandler                                            *)
(*   SpecUpload     uploadHandler                                          *)
(*   SpecStatus     processingStatusHandler                                *)
(* and Spec is the whole server: CORS middleware, mux and every handler.   *)
(* Strings whose ordering or syntax the code inspects (doc_id) are         *)
(* sequences of byte values; other strings are TLA+ strings.               *)
(***************************************************************************)
EXTENDS Integers, Sequences, FiniteSets, TLC

VARIABLES
    pc,            \* position of the request being served
    method,        \* r.Method of the request
    listFetch,     \* what the upstream answered to GET /v1/ingest/list
    listData,      \* listResp.Data as decoded
    idx,           \* position of the delete-all loop in listResp.Data
    deletedCount,  \* deletedCount
    failedCount,   \* failedCount
    failedFiles,   \* failedFiles
    outcomes,      \* what happened to each record's delete, in loop order
    calls,         \* upstream calls issued after the list fetch, in order
    fileMap,       \* fileMap of listFilesHandler
    reqData,       \* decoded body of a chat request
    endpoint,      \* endpoint chosen by chatHandler
    payload,       \* JSON marshalled for the upstream by chatHandler
    response,      \* what the bridge wrote to the client
    path,          \* r.URL.Path of the request
    handler,       \* handler the mux dispatched the request to
    form,          \* multipart body of an upload request
    filename       \* filename query parameter of a processing-status request

vars == <<pc, method, listFetch, listData, idx, deletedCount, failedCount,
          failedFiles, outcomes, calls, fileMap, reqData, endpoint, payload,
          response, path, handler, form, filename>>

----------------------------------------------------------------------------
(* Bounds *)

MaxFiles == 3      \* longest upstream file list
MaxHistory == 5    \* longest chat history
MaxNameLen == 5    \* longest uploaded filename, in characters

----------------------------------------------------------------------------
(* Values *)

Methods == {"GET", "POST", "DELETE"}

\* Status codes the upstream answers with.
UpstreamStatuses == {200, 404}

\* Bytes that are hex digits in a URL escape; 'a' is 97, '%' is 37.
HexBytes == {97}

SeqsUpTo(S, n) == UNION {[1..k -> S] : k \in 0..n}

\* doc_id values the upstream hands out: "", "%", "%aa", "a".
DocIds == {<<>>, <<37>>, <<37, 97, 97>>, <<97>>}

\* file_name values the upstream stores; a file can be named "Unknown".
FileNames == {"Unknown", "a.txt"}

\* doc_metadata: nil, a map whose file_name is missing or not a string, or a
\* map with a string file_name.
NilMeta == [present |-> FALSE, hasName |-> FALSE, name |-> ""]

NoNameMeta == [present |-> TRUE, hasName |-> FALSE, name |-> ""]

NamedMeta(n) == [present |-> TRUE, hasName |-> TRUE, name |-> n]

Metadatas == {NilMeta, NoNameMeta} \cup {NamedMeta(n) : n \in FileNames}

FileInfos == [doc_id : DocIds, doc_metadata : Metadatas]

\* Go compares strings byte by byte; a proper prefix is smaller.
RECURSIVE StrLess(_, _)
StrLess(a, b) ==
    IF b = <<>> THEN FALSE
    ELSE IF a = <<>> THEN TRUE
    ELSE IF Head(a) # Head(b) THEN Head(a) < Head(b)
    ELSE StrLess(Tail(a), Tail(b))

StrGreater(a, b) == StrLess(b, a)

\* The upstream's list: one record per document identifier.
FileLists ==
    {l \in SeqsUpTo(FileInfos, MaxFiles) :
        \A i, j \in DOMAIN l : i # j => l[i].doc_id # l[j].doc_id}

\* fileName := "Unknown"; if file.DocMetadata != nil { if name, ok := ... }
DisplayName(file) ==
    IF file.doc_metadata.present /\ file.doc_metadata.hasName
    THEN file.doc_metadata.name
    ELSE "Unknown"

NoResponse == [status |-> 0]

NoFetch == [err |-> FALSE, status |-> 0, decodable |-> FALSE]

\* http.Error(w, text, code)
HttpError(text, code) ==
    [status |-> code, body |-> [type |-> "text", text |-> text]]

JsonResponse(code, obj) ==
    [status |-> code, body |-> [type |-> "json", json |-> obj]]

----------------------------------------------------------------------------
(* deleteAllFilesHandler *)

\* http.NewRequest fails when the URL does not parse: a '%' that is not
\* followed by two hex digits.
NewRequestFails(docID) ==
    \E i \in DOMAIN docID :
        /\ docID[i] = 37
        /\ ~ ( /\ i + 2 <= Len(docID)
               /\ docID[i + 1] \in HexBytes
               /\ docID[i + 2] \in HexBytes )

DeleteCall(docID) == [verb |-> "DELETE", prefix |-> "/v1/ingest/", id |-> docID]

RequestError == [err |-> "request", status |-> 0]

NetworkError == [err |-> "network", status |-> 0]

Answered(s) == [err |-> "", status |-> s]

\* A request path: its segments and whether it ends with a slash.
Path(segs, slash) == [segs |-> segs, slash |-> slash]

NoPath == Path(<<>>, FALSE)

NoForm == [wellFormed |-> FALSE, hasFile |-> FALSE, name |-> <<>>, size |-> 0]

InitCommon ==
    /\ pc = "idle"
    /\ method = ""
    /\ listFetch = NoFetch
    /\ listData = <<>>
    /\ idx = 0
    /\ deletedCount = 0
    /\ failedCount = 0
    /\ failedFiles = <<>>
    /\ outcomes = <<>>
    /\ calls = <<>>
    /\ fileMap = <<>>
    /\ reqData = [decoded |-> FALSE]
    /\ endpoint = ""
    /\ payload = [none |-> TRUE]
    /\ response = NoResponse
    /\ form = NoForm
    /\ filename = ""

InitDeleteAll ==
    /\ InitCommon
    /\ path = Path(<<"api", "files", "delete-all">>, FALSE)
    /\ handler = "deleteAllFilesHandler"

DA_MethodNotAllowed ==
    /\ handler = "deleteAllFilesHandler"
    /\ pc = "idle"
    /\ \E m \in Methods \ {"DELETE"} : method' = m
    /\ response' = HttpError("Method not allowed", 405)
    /\ pc' = "done"
    /\ UNCHANGED <<listFetch, listData, idx, deletedCount, failedCount,
                   failedFiles, outcomes, calls, fileMap, reqData, endpoint,
                   payload>>
    /\ UNCHANGED <<path, handler, form, filename>>

DA_ListUnavailable ==
    /\ handler = "deleteAllFilesHandler"
    /\ pc = "idle"
    /\ method' = "DELETE"
    /\ listFetch' = [err |-> TRUE, status |-> 0, decodable |-> FALSE]
    /\ response' = JsonResponse(502,
           [success |-> FALSE,
            error |-> "Failed to get file list from PrivateGPT",
            details |-> "err"])
    /\ pc' = "done"
    /\ UNCHANGED <<listData, idx, deletedCount, failedCount, failedFiles,
                   outcomes, calls, fileMap, reqData, endpoint, payload>>
    /\ UNCHANGED <<path, handler, form, filename>>

\* Variant: every non-200 list answer is reported as 502.
DA_ListStatus_Masked ==
    /\ handler = "deleteAllFilesHandler"
    /\ pc = "idle"
    /\ method' = "DELETE"
    /\ \E s \in UpstreamStatuses \ {200} :
          /\ listFetch' = [err |-> FALSE, status |-> s, decodable |-> FALSE]
          /\ response' = JsonResponse(502,
                 [success |-> FALSE,
                  error |-> <<"PrivateGPT error getting file list (status %d)", s>>])
    /\ pc' = "done"
    /\ UNCHANGED <<listData, idx, deletedCount, failedCount, failedFiles,
                   outcomes, calls, fileMap, reqData, endpoint, payload>>
    /\ UNCHANGED <<path, handler, form, filename>>

DA_ListStatus ==
    /\ handler = "deleteAllFilesHandler"
    /\ pc = "idle"
    /\ method' = "DELETE"
    /\ \E s \in UpstreamStatuses \ {200} :
          /\ listFetch' = [err |-> FALSE, status |-> s, decodable |-> FALSE]
          /\ response' = JsonResponse(s,
                 [success |-> FALSE,
                  error |-> <<"PrivateGPT error getting file list (status %d)", s>>])
    /\ pc' = "done"
    /\ UNCHANGED <<listData, idx, deletedCount, failedCount, failedFiles,
                   outcomes, calls, fileMap, reqData, endpoint, payload>>
    /\ UNCHANGED <<path, handler, form, filename>>

DA_ListUndecodable ==
    /\ handler = "deleteAllFilesHandler"
    /\ pc = "idle"
    /\ method' = "DELETE"
    /\ listFetch' = [err |-> FALSE, status |-> 200, decodable |-> FALSE]
    /\ response' = JsonResponse(500,
           [success |-> FALSE,
            error |-> "Failed to parse file list",
            details |-> "err"])
    /\ pc' = "done"
    /\ UNCHANGED <<listData, idx, deletedCount, failedCount, failedFiles,
                   outcomes, calls, fileMap, reqData, endpoint, payload>>
    /\ UNCHANGED <<path, handler, form, filename>>

DA_ListEmpty ==
    /\ handler = "deleteAllFilesHandler"
    /\ pc = "idle"
    /\ method' = "DELETE"
    /\ listFetch' = [err |-> FALSE, status |-> 200, decodable |-> TRUE]
    /\ listData' = <<>>
    /\ response' = JsonResponse(200,
           [success |-> TRUE,
            message |-> "No files to delete",
            deleted_count |-> 0,
            failed_count |-> 0])
    /\ pc' = "done"
    /\ UNCHANGED <<idx, deletedCount, failedCount, failedFiles, outcomes,
                   calls, fileMap, reqData, endpoint, payload>>
    /\ UNCHANGED <<path, handler, form, filename>>

DA_ListFetched ==
    /\ handler = "deleteAllFilesHandler"
    /\ pc = "idle"
    /\ method' = "DELETE"
    /\ listFetch' = [err |-> FALSE, status |-> 200, decodable |-> TRUE]
    /\ \E l \in FileLists : Len(l) > 0 /\ listData' = l
    /\ idx' = 1
    /\ pc' = "da_loop"
    /\ UNCHANGED <<deletedCount, failedCount, failedFiles, outcomes, calls,
                   fileMap, reqData, endpoint, payload, response>>
    /\ UNCHANGED <<path, handler, form, filename>>

DA_DeleteRequestError ==
    /\ handler = "deleteAllFilesHandler"
    /\ pc = "da_loop"
    /\ idx <= Len(listData)
    /\ NewRequestFails(listData[idx].doc_id)
    /\ failedCount' = failedCount + 1
    /\ failedFiles' = Append(failedFiles, DisplayName(listData[idx]))
    /\ outcomes' = Append(outcomes, RequestError)
    /\ idx' = idx + 1
    /\ UNCHANGED <<pc, method, listFetch, listData, deletedCount, calls,
                   fileMap, reqData, endpoint, payload, response>>
    /\ UNCHANGED <<path, handler, form, filename>>

\* Variant: a network error leaves the loop (break instead of continue).
DA_DeleteNetworkError_Abort ==
    /\ handler = "deleteAllFilesHandler"
    /\ pc = "da_loop"
    /\ idx <= Len(listData)
    /\ ~ NewRequestFails(listData[idx].doc_id)
    /\ calls' = Append(calls, DeleteCall(listData[idx].doc_id))
    /\ failedCount' = failedCount + 1
    /\ failedFiles' = Append(failedFiles, DisplayName(listData[idx]))
    /\ outcomes' = Append(outcomes, NetworkError)
    /\ idx' = Len(listData) + 1
    /\ UNCHANGED <<pc, method, listFetch, listData, deletedCount, fileMap,
                   reqData, endpoint, payload, response>>
    /\ UNCHANGED <<path, handler, form, filename>>

DA_DeleteNetworkError ==
    /\ handler = "deleteAllFilesHandler"
    /\ pc = "da_loop"
    /\ idx <= Len(listData)
    /\ ~ NewRequestFails(listData[idx].doc_id)
    /\ calls' = Append(calls, DeleteCall(listData[idx].doc_id))
    /\ failedCount' = failedCount + 1
    /\ failedFiles' = Append(failedFiles, DisplayName(listData[idx]))
    /\ outcomes' = Append(outcomes, NetworkError)
    /\ idx' = idx + 1
    /\ UNCHANGED <<pc, method, listFetch, listData, deletedCount, fileMap,
                   reqData, endpoint, payload, response>>
    /\ UNCHANGED <<path, handler, form, filename>>

\* Variant: a non-200 answer is not added to the failed list.
DA_DeleteAnswered_Unlisted ==
    /\ handler = "deleteAllFilesHandler"
    /\ pc = "da_loop"
    /\ idx <= Len(listData)
    /\ ~ NewRequestFails(listData[idx].doc_id)
    /\ calls' = Append(calls, DeleteCall(listData[idx].doc_id))
    /\ \E s \in UpstreamStatuses :
          /\ outcomes' = Append(outcomes, Answered(s))
          /\ IF s = 200
             THEN /\ deletedCount' = deletedCount + 1
                  /\ UNCHANGED <<failedCount, failedFiles>>
             ELSE /\ failedCount' = failedCount + 1
                  /\ UNCHANGED <<deletedCount, failedFiles>>
    /\ idx' = idx + 1
    /\ UNCHANGED <<pc, method, listFetch, listData, fileMap, reqData,
                   endpoint, payload, response>>
    /\ UNCHANGED <<path, handler, form, filename>>

DA_DeleteAnswered ==
    /\ handler = "deleteAllFilesHandler"
    /\ pc = "da_loop"
    /\ idx <= Len(listData)
    /\ ~ NewRequestFails(listData[idx].doc_id)
    /\ calls' = Append(calls, DeleteCall(listData[idx].doc_id))
    /\ \E s \in UpstreamStatuses :
          /\ outcomes' = Append(outcomes, Answered(s))
          /\ IF s = 200
             THEN /\ deletedCount' = deletedCount + 1
                  /\ UNCHANGED <<failedCount, failedFiles>>
             ELSE /\ failedCount' = failedCount + 1
                  /\ failedFiles' = Append(failedFiles, DisplayName(listData[idx]))
                  /\ UNCHANGED deletedCount
    /\ idx' = idx + 1
    /\ UNCHANGED <<pc, method, listFetch, listData, fileMap, reqData,
                   endpoint, payload, response>>
    /\ UNCHANGED <<path, handler, form, filename>>

\* result := map[string]interface{}{...}; failed_files only when non-empty
BulkResult(deleted, failed, total, names) ==
    LET base == [success |-> TRUE,
                 message |-> <<"Bulk delete completed: %d deleted, %d failed",
                               deleted, failed>>,
                 deleted_count |-> deleted,
                 failed_count |-> failed,
                 total_files |-> total]
    IN IF Len(names) > 0
       THEN [success |-> base.success, message |-> base.message,
             deleted_count |-> base.deleted_count,
             failed_count |-> base.failed_count,
             total_files |-> base.total_files,
             failed_files |-> names]
       ELSE base

DA_Respond ==
    /\ handler = "deleteAllFilesHandler"
    /\ pc = "da_loop"
    /\ idx > Len(listData)
    /\ response' = JsonResponse(200,
           BulkResult(deletedCount, failedCount, Len(listData), failedFiles))
    /\ pc' = "done"
    /\ UNCHANGED <<method, listFetch, listData, idx, deletedCount,
                   failedCount, failedFiles, outcomes, calls, fileMap,
                   reqData, endpoint, payload>>
    /\ UNCHANGED <<path, handler, form, filename>>

NextDeleteAll ==
    \/ DA_MethodNotAllowed
    \/ DA_ListUnavailable
    \/ DA_ListStatus
    \/ DA_ListUndecodable
    \/ DA_ListEmpty
    \/ DA_ListFetched
    \/ DA_DeleteRequestError
    \/ DA_DeleteNetworkError
    \/ DA_DeleteAnswered
    \/ DA_Respond

SpecDeleteAll == InitDeleteAll /\ [][NextDeleteAll]_vars

----------------------------------------------------------------------------
(* listFilesHandler *)

EmptyMap == <<>>

\* Variant: a colliding record always replaces the stored one (last wins).
DedupStep_LastWins(m, file) ==
    LET fileName == DisplayName(file)
    IN IF fileName \in DOMAIN m
       THEN [m EXCEPT ![fileName] = file]
       ELSE m @@ (fileName :> file)

\* Variant: nameless records are keyed by their doc_id instead of "Unknown".
DedupStep_KeyByDocId(m, file) ==
    LET fileName == IF file.doc_metadata.present /\ file.doc_metadata.hasName
                    THEN file.doc_metadata.name
                    ELSE ToString(file.doc_id)
    IN IF fileName \in DOMAIN m
       THEN IF StrGreater(file.doc_id, m[fileName].doc_id)
            THEN [m EXCEPT ![fileName] = file]
            ELSE m
       ELSE m @@ (fileName :> file)

\* One iteration of `for _, file := range listResp.Data`.
DedupStep(m, file) ==
    LET fileName == DisplayName(file)
    IN IF fileName \in DOMAIN m
       THEN IF StrGreater(file.doc_id, m[fileName].doc_id)
            THEN [m EXCEPT ![fileName] = file]
            ELSE m
       ELSE m @@ (fileName :> file)

\* The whole loop over listResp.Data, starting from map m.
RECURSIVE Deduplicate(_, _)
Deduplicate(m, l) ==
    IF l = <<>> THEN m ELSE Deduplicate(DedupStep(m, Head(l)), Tail(l))

\* `for _, file := range fileMap`: the values of the map in any order.
MapOrders(m) ==
    LET n == Cardinality(DOMAIN m)
    IN {[i \in 1..n |-> m[o[i]]] :
           o \in {f \in [1..n -> DOMAIN m] :
                     \A i, j \in 1..n : i # j => f[i] # f[j]}}

InitListFiles ==
    /\ InitCommon
    /\ path = Path(<<"api", "files">>, FALSE)
    /\ handler = "listFilesHandler"

LF_MethodNotAllowed ==
    /\ handler = "listFilesHandler"
    /\ pc = "idle"
    /\ \E m \in Methods \ {"GET"} : method' = m
    /\ response' = HttpError("Method not allowed", 405)
    /\ pc' = "done"
    /\ UNCHANGED <<listFetch, listData, idx, deletedCount, failedCount,
                   failedFiles, outcomes, calls, fileMap, reqData, endpoint,
                   payload>>
    /\ UNCHANGED <<path, handler, form, filename>>

LF_ListUnavailable ==
    /\ handler = "listFilesHandler"
    /\ pc = "idle"
    /\ method' = "GET"
    /\ listFetch' = [err |-> TRUE, status |-> 0, decodable |-> FALSE]
    /\ response' = HttpError("PrivateGPT API error", 502)
    /\ pc' = "done"
    /\ UNCHANGED <<listData, idx, deletedCount, failedCount, failedFiles,
                   outcomes, calls, fileMap, reqData, endpoint, payload>>
    /\ UNCHANGED <<path, handler, form, filename>>

LF_ListStatus ==
    /\ handler = "listFilesHandler"
    /\ pc = "idle"
    /\ method' = "GET"
    /\ \E s \in UpstreamStatuses \ {200} :
          /\ listFetch' = [err |-> FALSE, status |-> s, decodable |-> FALSE]
          /\ response' = [status |-> s,
                          body |-> [type |-> "upstream", of |-> "/v1/ingest/list"]]
    /\ pc' = "done"
    /\ UNCHANGED <<listData, idx, deletedCount, failedCount, failedFiles,
                   outcomes, calls, fileMap, reqData, endpoint, payload>>
    /\ UNCHANGED <<path, handler, form, filename>>

LF_ListUndecodable ==
    /\ handler = "listFilesHandler"
    /\ pc = "idle"
    /\ method' = "GET"
    /\ listFetch' = [err |-> FALSE, status |-> 200, decodable |-> FALSE]
    /\ response' = HttpError("Error parsing response", 500)
    /\ pc' = "done"
    /\ UNCHANGED <<listData, idx, deletedCount, failedCount, failedFiles,
                   outcomes, calls, fileMap, reqData, endpoint, payload>>
    /\ UNCHANGED <<path, handler, form, filename>>

LF_Deduplicated ==
    /\ handler = "listFilesHandler"
    /\ pc = "idle"
    /\ method' = "GET"
    /\ listFetch' = [err |-> FALSE, status |-> 200, decodable |-> TRUE]
    /\ \E l \in FileLists :
          /\ listData' = l
          /\ fileMap' = Deduplicate(EmptyMap, l)
    /\ \E data \in MapOrders(fileMap') :
          response' = JsonResponse(200,
              [object |-> "list", model |-> "private-gpt", data |-> data])
    /\ pc' = "done"
    /\ UNCHANGED <<idx, deletedCount, failedCount, failedFiles, outcomes,
                   calls, reqData, endpoint, payload>>
    /\ UNCHANGED <<path, handler, form, filename>>

NextListFiles ==
    \/ LF_MethodNotAllowed
    \/ LF_ListUnavailable
    \/ LF_ListStatus
    \/ LF_ListUndecodable
    \/ LF_Deduplicated

SpecListFiles == InitListFiles /\ [][NextListFiles]_vars

----------------------------------------------------------------------------
(* chatHandler *)

Texts == {"", "hello"}

Modes == {"rag", "search", "basic", "summarize", "", "other"}

DocSelections == {<<>>, <<"d1">>, <<"d2", "d1">>}

TokenLimits == {0, 256}

Temperatures == {0, 1}

SystemPrompts == {"", "be brief"}

Message(role, content) == [role |-> role, content |-> content]

Turns == {Message("user", "u"), Message("assistant", "a")}

Histories == SeqsUpTo(Turns, MaxHistory)

BridgeConfigs ==
    [mode : Modes, use_context : BOOLEAN, selected_docs : DocSelections,
     max_tokens : TokenLimits, temperature : Temperatures]

ChatBodies ==
    [decoded : {TRUE}, message : Texts, config : BridgeConfigs,
     system_prompt : SystemPrompts, history : Histories]

\* JSON object with no key.
EmptyObject == [k \in {} |-> k]

\* A field tagged omitempty is left out when cond is false.
OmitEmpty(cond, obj) == IF cond THEN obj ELSE EmptyObject

\* ContextFilter{DocsIds: docs}
ContextFilter(docs) == [docs_ids |-> docs]

\* Variant: the stream field is tagged omitempty, so false is left out.
MarshalChatRequest_StreamOmitted(messages, useContext, hasFilter, docs, includeSources, maxTokens, temperature) ==
    [model |-> "private-gpt",
     messages |-> messages,
     use_context |-> useContext,
     include_sources |-> includeSources]
    @@ OmitEmpty(hasFilter, [context_filter |-> ContextFilter(docs)])
    @@ OmitEmpty(maxTokens # 0, [max_tokens |-> maxTokens])
    @@ OmitEmpty(temperature # 0, [temperature |-> temperature])

\* json.Marshal(ChatRequest{...}); filter is the ContextFilter pointer.
MarshalChatRequest(messages, useContext, hasFilter, docs, includeSources, maxTokens, temperature) ==
    [model |-> "private-gpt",
     messages |-> messages,
     use_context |-> useContext,
     include_sources |-> includeSources,
     stream |-> FALSE]
    @@ OmitEmpty(hasFilter, [context_filter |-> ContextFilter(docs)])
    @@ OmitEmpty(maxTokens # 0, [max_tokens |-> maxTokens])
    @@ OmitEmpty(temperature # 0, [temperature |-> temperature])

\* json.Marshal(CompletionRequest{...})
MarshalCompletionRequest(prompt, useContext, hasFilter, docs, includeSources, maxTokens, temperature) ==
    [model |-> "private-gpt",
     prompt |-> prompt,
     use_context |-> useContext,
     include_sources |-> includeSources]
    @@ OmitEmpty(hasFilter, [context_filter |-> ContextFilter(docs)])
    @@ OmitEmpty(maxTokens # 0, [max_tokens |-> maxTokens])
    @@ OmitEmpty(temperature # 0, [temperature |-> temperature])

\* json.Marshal(ChunksRequest{...})
MarshalChunksRequest(text, hasFilter, docs, limit, prevNext) ==
    [text |-> text]
    @@ OmitEmpty(hasFilter, [context_filter |-> ContextFilter(docs)])
    @@ OmitEmpty(limit # 0, [limit |-> limit])
    @@ OmitEmpty(prevNext # 0, [prev_next_chunks |-> prevNext])

SystemTurn(rd) ==
    IF rd.system_prompt # "" THEN <<Message("system", rd.system_prompt)>> ELSE <<>>

\* Variant: the filter follows the rag rule and so depends on use_context.
TranslateSearch_UseContext(rd) ==
    [endpoint |-> "/v1/chunks",
     payload |-> MarshalChunksRequest(rd.message,
                     rd.config.use_context /\ Len(rd.config.selected_docs) > 0,
                     rd.config.selected_docs, 10, 1)]

\* case "search"
TranslateSearch(rd) ==
    [endpoint |-> "/v1/chunks",
     payload |-> MarshalChunksRequest(rd.message,
                     Len(rd.config.selected_docs) > 0,
                     rd.config.selected_docs, 10, 1)]

\* Variant: the first four turns are kept instead of the last four.
BasicHistory_FirstFour(history) ==
    IF Len(history) > 4 THEN SubSeq(history, 1, 4) ELSE history

\* reqData.History[len(reqData.History)-4:] when longer than 4
BasicHistory(history) ==
    IF Len(history) > 4
    THEN SubSeq(history, Len(history) - 3, Len(history))
    ELSE history

\* Variant: basic mode built like rag mode (context settings from config).
TranslateBasic_LikeRag(rd) ==
    [endpoint |-> "/v1/chat/completions",
     payload |-> MarshalChatRequest(
                     SystemTurn(rd) \o BasicHistory(rd.history)
                         \o <<Message("user", rd.message)>>,
                     rd.config.use_context,
                     rd.config.use_context /\ Len(rd.config.selected_docs) > 0,
                     rd.config.selected_docs, TRUE,
                     rd.config.max_tokens, rd.config.temperature)]

\* case "basic"
TranslateBasic(rd) ==
    [endpoint |-> "/v1/chat/completions",
     payload |-> MarshalChatRequest(
                     SystemTurn(rd) \o BasicHistory(rd.history)
                         \o <<Message("user", rd.message)>>,
                     FALSE, FALSE, <<>>, FALSE,
                     rd.config.max_tokens, rd.config.temperature)]

\* case "summarize"
TranslateSummarize(rd) ==
    [endpoint |-> "/v1/completions",
     payload |-> MarshalCompletionRequest(
                     <<"Please provide a comprehensive summary of the following content: %s",
                       rd.message>>,
                     TRUE, Len(rd.config.selected_docs) > 0,
                     rd.config.selected_docs, TRUE,
                     rd.config.max_tokens, rd.config.temperature)]

\* Variant: the filter is attached whenever documents are selected.
TranslateRag_FilterOnDocs(rd) ==
    [endpoint |-> "/v1/chat/completions",
     payload |-> MarshalChatRequest(
                     SystemTurn(rd) \o rd.history \o <<Message("user", rd.message)>>,
                     rd.config.use_context,
                     Len(rd.config.selected_docs) > 0,
                     rd.config.selected_docs, TRUE,
                     rd.config.max_tokens, rd.config.temperature)]

\* default: "rag" mode
TranslateRag(rd) ==
    [endpoint |-> "/v1/chat/completions",
     payload |-> MarshalChatRequest(
                     SystemTurn(rd) \o rd.history \o <<Message("user", rd.message)>>,
                     rd.config.use_context,
                     rd.config.use_context /\ Len(rd.config.selected_docs) > 0,
                     rd.config.selected_docs, TRUE,
                     rd.config.max_tokens, rd.config.temperature)]

InitChat ==
    /\ InitCommon
    /\ path = Path(<<"api", "chat">>, FALSE)
    /\ handler = "chatHandler"

Chat_MethodNotAllowed ==
    /\ handler = "chatHandler"
    /\ pc = "idle"
    /\ \E m \in Methods \ {"POST"} : method' = m
    /\ response' = HttpError("Method not allowed", 405)
    /\ pc' = "done"
    /\ UNCHANGED <<listFetch, listData, idx, deletedCount, failedCount,
                   failedFiles, outcomes, calls, fileMap, reqData, endpoint,
                   payload>>
    /\ UNCHANGED <<path, handler, form, filename>>

Chat_InvalidBody ==
    /\ handler = "chatHandler"
    /\ pc = "idle"
    /\ method' = "POST"
    /\ response' = HttpError("Invalid request", 400)
    /\ pc' = "done"
    /\ UNCHANGED <<listFetch, listData, idx, deletedCount, failedCount,
                   failedFiles, outcomes, calls, fileMap, reqData, endpoint,
                   payload>>
    /\ UNCHANGED <<path, handler, form, filename>>

Chat_Decoded ==
    /\ handler = "chatHandler"
    /\ pc = "idle"
    /\ method' = "POST"
    /\ \E rd \in ChatBodies : reqData' = rd
    /\ pc' = "chat_switch"
    /\ UNCHANGED <<listFetch, listData, idx, deletedCount, failedCount,
                   failedFiles, outcomes, calls, fileMap, endpoint, payload,
                   response>>
    /\ UNCHANGED <<path, handler, form, filename>>

Chat_Translated(t) ==
    /\ endpoint' = t.endpoint
    /\ payload' = t.payload
    /\ pc' = "chat_send"
    /\ UNCHANGED <<method, listFetch, listData, idx, deletedCount,
                   failedCount, failedFiles, outcomes, calls, fileMap,
                   reqData, response>>
    /\ UNCHANGED <<path, handler, form, filename>>

Chat_Search ==
    /\ handler = "chatHandler"
    /\ pc = "chat_switch"
    /\ reqData.config.mode = "search"
    /\ Chat_Translated(TranslateSearch(reqData))

Chat_Basic ==
    /\ handler = "chatHandler"
    /\ pc = "chat_switch"
    /\ reqData.config.mode = "basic"
    /\ Chat_Translated(TranslateBasic(reqData))

Chat_Summarize ==
    /\ handler = "chatHandler"
    /\ pc = "chat_switch"
    /\ reqData.config.mode = "summarize"
    /\ Chat_Translated(TranslateSummarize(reqData))

\* Variant: an empty mode is served like basic mode.
Chat_Rag_AbsentIsBasic ==
    /\ handler = "chatHandler"
    /\ pc = "chat_switch"
    /\ reqData.config.mode \notin {"search", "basic", "summarize"}
    /\ Chat_Translated(IF reqData.config.mode = ""
                       THEN TranslateBasic(reqData)
                       ELSE TranslateRag(reqData))

Chat_Rag ==
    /\ handler = "chatHandler"
    /\ pc = "chat_switch"
    /\ reqData.config.mode \notin {"search", "basic", "summarize"}
    /\ Chat_Translated(TranslateRag(reqData))

ChatCall == [verb |-> "POST", path |-> endpoint, body |-> payload]

Chat_ForwardFailed ==
    /\ handler = "chatHandler"
    /\ pc = "chat_send"
    /\ calls' = Append(calls, ChatCall)
    /\ outcomes' = Append(outcomes, NetworkError)
    /\ response' = HttpError("PrivateGPT API error", 502)
    /\ pc' = "done"
    /\ UNCHANGED <<method, listFetch, listData, idx, deletedCount,
                   failedCount, failedFiles, fileMap, reqData,
                   endpoint, payload>>
    /\ UNCHANGED <<path, handler, form, filename>>

Chat_ForwardAnswered ==
    /\ handler = "chatHandler"
    /\ pc = "chat_send"
    /\ calls' = Append(calls, ChatCall)
    /\ \E s \in UpstreamStatuses :
          /\ outcomes' = Append(outcomes, Answered(s))
          /\ response' = [status |-> s, body |-> [type |-> "upstream", of |-> endpoint]]
    /\ pc' = "done"
    /\ UNCHANGED <<method, listFetch, listData, idx, deletedCount,
                   failedCount, failedFiles, fileMap, reqData,
                   endpoint, payload>>
    /\ UNCHANGED <<path, handler, form, filename>>

NextChat ==
    \/ Chat_MethodNotAllowed
    \/ Chat_InvalidBody
    \/ Chat_Decoded
    \/ Chat_Search
    \/ Chat_Basic
    \/ Chat_Summarize
    \/ Chat_Rag
    \/ Chat_ForwardFailed
    \/ Chat_ForwardAnswered

SpecChat == InitChat /\ [][NextChat]_vars

----------------------------------------------------------------------------
(* uploadHandler *)

MAX_FILE_SIZE == 52428800

\* Characters of an uploaded file's name (header.Filename, a base name).
NameChars == {"p", "P", "d", "f", ".", "x"}

UploadNames == SeqsUpTo(NameChars, MaxNameLen) \ {<<>>}

\* Sizes of the uploaded file in bytes: small, the ceiling, 60 MB.
FileSizes == {1024, MAX_FILE_SIZE, 60000000}

Forms ==
    [wellFormed : {TRUE}, hasFile : {TRUE}, name : UploadNames, size : FileSizes]

\* strings.ToLower, character by character.
LowerChar(c) == IF c = "P" THEN "p" ELSE IF c = "D" THEN "d" ELSE c

ToLower(str) == [i \in DOMAIN str |-> LowerChar(str[i])]

\* filepath.Ext: the suffix starting at the last dot of the last element.
RECURSIVE ExtFrom(_, _)
ExtFrom(name, i) ==
    IF i < 1 \/ name[i] = "/" THEN <<>>
    ELSE IF name[i] = "." THEN SubSeq(name, i, Len(name))
    ELSE ExtFrom(name, i - 1)

Ext(name) == ExtFrom(name, Len(name))

\* allowedExts
AllowedExts ==
    {<<".", "p", "d", "f">>, <<".", "d", "o", "c", "x">>, <<".", "d", "o", "c">>,
     <<".", "t", "x", "t">>, <<".", "m", "d">>, <<".", "h", "t", "m", "l">>,
     <<".", "c", "s", "v">>, <<".", "j", "s", "o", "n">>,
     <<".", "p", "p", "t", "x">>, <<".", "p", "p", "t">>,
     <<".", "e", "p", "u", "b">>, <<".", "i", "p", "y", "n", "b">>}

\* Variant: the extension is looked up without lowering it.
ExtensionAllowed_CaseSensitive(name) == Ext(name) \in AllowedExts

\* ext := strings.ToLower(filepath.Ext(header.Filename)); allowedExts[ext]
ExtensionAllowed(name) == ToLower(Ext(name)) \in AllowedExts

\* r.ParseMultipartForm(maxMemory): maxMemory bounds what is kept in memory,
\* larger file parts are spooled to disk; only a malformed body is an error.
ParseMultipartFormFails(f, maxMemory) == ~ f.wellFormed

IngestCall(f) ==
    [verb |-> "POST", path |-> "/v1/ingest/file",
     body |-> [file |-> f.name, size |-> f.size]]

InitUpload ==
    /\ InitCommon
    /\ path = Path(<<"api", "upload">>, FALSE)
    /\ handler = "uploadHandler"

UP_MethodNotAllowed ==
    /\ handler = "uploadHandler"
    /\ pc = "idle"
    /\ \E m \in Methods \ {"POST"} : method' = m
    /\ response' = HttpError("Method not allowed", 405)
    /\ pc' = "done"
    /\ UNCHANGED <<listFetch, listData, idx, deletedCount, failedCount,
                   failedFiles, outcomes, calls, fileMap, reqData, endpoint,
                   payload, path, handler, form, filename>>

UP_ParseFailed ==
    /\ handler = "uploadHandler"
    /\ pc = "idle"
    /\ method' = "POST"
    /\ form' = [wellFormed |-> FALSE, hasFile |-> FALSE, name |-> <<>>, size |-> 0]
    /\ ParseMultipartFormFails(form', MAX_FILE_SIZE)
    /\ response' = HttpError("File too large or invalid", 400)
    /\ pc' = "done"
    /\ UNCHANGED <<listFetch, listData, idx, deletedCount, failedCount,
                   failedFiles, outcomes, calls, fileMap, reqData, endpoint,
                   payload, path, handler, filename>>

UP_NoFile ==
    /\ handler = "uploadHandler"
    /\ pc = "idle"
    /\ method' = "POST"
    /\ form' = [wellFormed |-> TRUE, hasFile |-> FALSE, name |-> <<>>, size |-> 0]
    /\ ~ ParseMultipartFormFails(form', MAX_FILE_SIZE)
    /\ response' = HttpError("No file provided", 400)
    /\ pc' = "done"
    /\ UNCHANGED <<listFetch, listData, idx, deletedCount, failedCount,
                   failedFiles, outcomes, calls, fileMap, reqData, endpoint,
                   payload, path, handler, filename>>

UP_Unsupported ==
    /\ handler = "uploadHandler"
    /\ pc = "idle"
    /\ method' = "POST"
    /\ \E f \in Forms :
          /\ ~ ParseMultipartFormFails(f, MAX_FILE_SIZE)
          /\ ~ ExtensionAllowed(f.name)
          /\ form' = f
    /\ response' = HttpError("File type not supported", 400)
    /\ pc' = "done"
    /\ UNCHANGED <<listFetch, listData, idx, deletedCount, failedCount,
                   failedFiles, outcomes, calls, fileMap, reqData, endpoint,
                   payload, path, handler, filename>>

UP_Accepted ==
    /\ handler = "uploadHandler"
    /\ pc = "idle"
    /\ method' = "POST"
    /\ \E f \in Forms :
          /\ ~ ParseMultipartFormFails(f, MAX_FILE_SIZE)
          /\ ExtensionAllowed(f.name)
          /\ form' = f
    /\ pc' = "up_send"
    /\ UNCHANGED <<listFetch, listData, idx, deletedCount, failedCount,
                   failedFiles, outcomes, calls, fileMap, reqData, endpoint,
                   payload, response, path, handler, filename>>

UP_ForwardFailed ==
    /\ handler = "uploadHandler"
    /\ pc = "up_send"
    /\ calls' = Append(calls, IngestCall(form))
    /\ outcomes' = Append(outcomes, NetworkError)
    /\ response' = HttpError("PrivateGPT API error", 502)
    /\ pc' = "done"
    /\ UNCHANGED <<method, listFetch, listData, idx, deletedCount,
                   failedCount, failedFiles, fileMap, reqData,
                   endpoint, payload, path, handler, form, filename>>

UP_ForwardAnswered ==
    /\ handler = "uploadHandler"
    /\ pc = "up_send"
    /\ calls' = Append(calls, IngestCall(form))
    /\ \E s \in UpstreamStatuses :
          /\ outcomes' = Append(outcomes, Answered(s))
          /\ response' = [status |-> s,
                          body |-> [type |-> "upstream", of |-> "/v1/ingest/file"]]
    /\ pc' = "done"
    /\ UNCHANGED <<method, listFetch, listData, idx, deletedCount,
                   failedCount, failedFiles, fileMap, reqData,
                   endpoint, payload, path, handler, form, filename>>

NextUpload ==
    \/ UP_MethodNotAllowed
    \/ UP_ParseFailed
    \/ UP_NoFile
    \/ UP_Unsupported
    \/ UP_Accepted
    \/ UP_ForwardFailed
    \/ UP_ForwardAnswered

SpecUpload == InitUpload /\ [][NextUpload]_vars

----------------------------------------------------------------------------
(* processingStatusHandler *)

\* Values of the filename query parameter; "" is an absent parameter.
QueryNames == FileNames \cup {"b.txt", ""}

\* The scan of listResp.Data: stops at the first record whose metadata is
\* present and holds a string file_name equal to the requested one.
RECURSIVE FileExistsFrom(_, _, _)
FileExistsFrom(l, i, name) ==
    IF i > Len(l) THEN FALSE
    ELSE IF /\ l[i].doc_metadata.present
            /\ l[i].doc_metadata.hasName
            /\ l[i].doc_metadata.name = name
         THEN TRUE
         ELSE FileExistsFrom(l, i + 1, name)

\* Variant: records are matched on the name the file list displays.
FileExists_ByDisplayName(l, name) == \E i \in DOMAIN l : DisplayName(l[i]) = name

FileExists(l, name) == FileExistsFrom(l, 1, name)

StatusFailure(text, name) ==
    [error |-> text, filename |-> name, processing |-> FALSE]

StatusReport(name, fileExists) ==
    [filename |-> name,
     exists |-> fileExists,
     processing |-> ~ fileExists,
     status |-> [completed |-> fileExists,
                 message |-> IF fileExists THEN "File processing completed"
                             ELSE "File is still being processed"]]

InitStatus ==
    /\ InitCommon
    /\ path = Path(<<"api", "processing-status">>, FALSE)
    /\ handler = "processingStatusHandler"

PS_MethodNotAllowed ==
    /\ handler = "processingStatusHandler"
    /\ pc = "idle"
    /\ \E m \in Methods \ {"GET"} : method' = m
    /\ response' = HttpError("Method not allowed", 405)
    /\ pc' = "done"
    /\ UNCHANGED <<listFetch, listData, idx, deletedCount, failedCount,
                   failedFiles, outcomes, calls, fileMap, reqData, endpoint,
                   payload, path, handler, form, filename>>

PS_MissingFilename ==
    /\ handler = "processingStatusHandler"
    /\ pc = "idle"
    /\ method' = "GET"
    /\ filename' = ""
    /\ response' = JsonResponse(400, [error |-> "filename parameter is required"])
    /\ pc' = "done"
    /\ UNCHANGED <<listFetch, listData, idx, deletedCount, failedCount,
                   failedFiles, outcomes, calls, fileMap, reqData, endpoint,
                   payload, path, handler, form>>

PS_ListUnavailable ==
    /\ handler = "processingStatusHandler"
    /\ pc = "idle"
    /\ method' = "GET"
    /\ \E n \in QueryNames \ {""} : filename' = n
    /\ listFetch' = [err |-> TRUE, status |-> 0, decodable |-> FALSE]
    /\ response' = JsonResponse(502,
           StatusFailure("Failed to check PrivateGPT status", filename'))
    /\ pc' = "done"
    /\ UNCHANGED <<listData, idx, deletedCount, failedCount, failedFiles,
                   outcomes, calls, fileMap, reqData, endpoint, payload,
                   path, handler, form>>

PS_ListStatus ==
    /\ handler = "processingStatusHandler"
    /\ pc = "idle"
    /\ method' = "GET"
    /\ \E n \in QueryNames \ {""} : filename' = n
    /\ \E s \in UpstreamStatuses \ {200} :
          listFetch' = [err |-> FALSE, status |-> s, decodable |-> FALSE]
    /\ response' = JsonResponse(502,
           StatusFailure("PrivateGPT API error", filename'))
    /\ pc' = "done"
    /\ UNCHANGED <<listData, idx, deletedCount, failedCount, failedFiles,
                   outcomes, calls, fileMap, reqData, endpoint, payload,
                   path, handler, form>>

PS_ListUndecodable ==
    /\ handler = "processingStatusHandler"
    /\ pc = "idle"
    /\ method' = "GET"
    /\ \E n \in QueryNames \ {""} : filename' = n
    /\ listFetch' = [err |-> FALSE, status |-> 200, decodable |-> FALSE]
    /\ response' = JsonResponse(500,
           StatusFailure("Failed to parse response", filename'))
    /\ pc' = "done"
    /\ UNCHANGED <<listData, idx, deletedCount, failedCount, failedFiles,
                   outcomes, calls, fileMap, reqData, endpoint, payload,
                   path, handler, form>>

PS_Scanned ==
    /\ handler = "processingStatusHandler"
    /\ pc = "idle"
    /\ method' = "GET"
    /\ \E n \in QueryNames \ {""} : filename' = n
    /\ listFetch' = [err |-> FALSE, status |-> 200, decodable |-> TRUE]
    /\ \E l \in FileLists : listData' = l
    /\ response' = JsonResponse(200,
           StatusReport(filename', FileExists(listData', filename')))
    /\ pc' = "done"
    /\ UNCHANGED <<idx, deletedCount, failedCount, failedFiles, outcomes,
                   calls, fileMap, reqData, endpoint, payload, path, handler,
                   form>>

NextStatus ==
    \/ PS_MethodNotAllowed
    \/ PS_MissingFilename
    \/ PS_ListUnavailable
    \/ PS_ListStatus
    \/ PS_ListUndecodable
    \/ PS_Scanned

SpecStatus == InitStatus /\ [][NextStatus]_vars

----------------------------------------------------------------------------
(* healthHandler *)

H_Unavailable ==
    /\ handler = "healthHandler"
    /\ pc = "idle"
    /\ \E m \in Methods : method' = m
    /\ calls' = Append(calls, [verb |-> "GET", path |-> "/health"])
    /\ outcomes' = Append(outcomes, NetworkError)
    /\ response' = JsonResponse(503,
           [status |-> "error",
            message |-> "PrivateGPT API is not available",
            error |-> "err.Error()"])
    /\ pc' = "done"
    /\ UNCHANGED <<listFetch, listData, idx, deletedCount, failedCount,
                   failedFiles, fileMap, reqData, endpoint, payload, path,
                   handler, form, filename>>

H_Ok ==
    /\ handler = "healthHandler"
    /\ pc = "idle"
    /\ \E m \in Methods : method' = m
    /\ calls' = Append(calls, [verb |-> "GET", path |-> "/health"])
    /\ \E s \in UpstreamStatuses :
          /\ outcomes' = Append(outcomes, Answered(s))
          /\ response' = JsonResponse(200,
                 [status |-> "ok",
                  message |-> "Bridge server is running",
                  privategpt_status |-> (s = 200)])
    /\ pc' = "done"
    /\ UNCHANGED <<listFetch, listData, idx, deletedCount, failedCount,
                   failedFiles, fileMap, reqData, endpoint, payload, path,
                   handler, form, filename>>

----------------------------------------------------------------------------
(* deleteFileHandler *)

\* Bytes of a path segment that can stand for a document id.
SegBytes(seg) == IF seg = "%" THEN <<37>> ELSE <<97>>

\* strings.TrimPrefix(r.URL.Path, "/api/files/"): what follows the prefix.
DocIdOf(p) == IF Len(p.segs) > 2 THEN SegBytes(p.segs[3]) ELSE <<>>

DF_MethodNotAllowed ==
    /\ handler = "deleteFileHandler"
    /\ pc = "idle"
    /\ \E m \in Methods \ {"DELETE"} : method' = m
    /\ response' = HttpError("Method not allowed", 405)
    /\ pc' = "done"
    /\ UNCHANGED <<listFetch, listData, idx, deletedCount, failedCount,
                   failedFiles, outcomes, calls, fileMap, reqData, endpoint,
                   payload, path, handler, form, filename>>

DF_MissingId ==
    /\ handler = "deleteFileHandler"
    /\ pc = "idle"
    /\ method' = "DELETE"
    /\ DocIdOf(path) = <<>>
    /\ response' = HttpError("Document ID required", 400)
    /\ pc' = "done"
    /\ UNCHANGED <<listFetch, listData, idx, deletedCount, failedCount,
                   failedFiles, outcomes, calls, fileMap, reqData, endpoint,
                   payload, path, handler, form, filename>>

DF_RequestError ==
    /\ handler = "deleteFileHandler"
    /\ pc = "idle"
    /\ method' = "DELETE"
    /\ DocIdOf(path) # <<>>
    /\ NewRequestFails(DocIdOf(path))
    /\ response' = HttpError("Internal server error", 500)
    /\ pc' = "done"
    /\ UNCHANGED <<listFetch, listData, idx, deletedCount, failedCount,
                   failedFiles, outcomes, calls, fileMap, reqData, endpoint,
                   payload, path, handler, form, filename>>

DF_NetworkError ==
    /\ handler = "deleteFileHandler"
    /\ pc = "idle"
    /\ method' = "DELETE"
    /\ DocIdOf(path) # <<>>
    /\ ~ NewRequestFails(DocIdOf(path))
    /\ calls' = Append(calls, DeleteCall(DocIdOf(path)))
    /\ outcomes' = Append(outcomes, NetworkError)
    /\ response' = HttpError("PrivateGPT API error", 502)
    /\ pc' = "done"
    /\ UNCHANGED <<listFetch, listData, idx, deletedCount, failedCount,
                   failedFiles, fileMap, reqData, endpoint, payload, path,
                   handler, form, filename>>

DF_Answered ==
    /\ handler = "deleteFileHandler"
    /\ pc = "idle"
    /\ method' = "DELETE"
    /\ DocIdOf(path) # <<>>
    /\ ~ NewRequestFails(DocIdOf(path))
    /\ calls' = Append(calls, DeleteCall(DocIdOf(path)))
    /\ \E s \in UpstreamStatuses :
          /\ outcomes' = Append(outcomes, Answered(s))
          /\ response' =
                IF s = 200
                THEN JsonResponse(200, [message |-> "File deleted successfully"])
                ELSE [status |-> s,
                      body |-> [type |-> "upstream", of |-> "/v1/ingest/"]]
    /\ pc' = "done"
    /\ UNCHANGED <<listFetch, listData, idx, deletedCount, failedCount,
                   failedFiles, fileMap, reqData, endpoint, payload, path,
                   handler, form, filename>>

----------------------------------------------------------------------------
(* clearHistoryHandler *)

CH_MethodNotAllowed ==
    /\ handler = "clearHistoryHandler"
    /\ pc = "idle"
    /\ \E m \in Methods \ {"POST"} : method' = m
    /\ response' = HttpError("Method not allowed", 405)
    /\ pc' = "done"
    /\ UNCHANGED <<listFetch, listData, idx, deletedCount, failedCount,
                   failedFiles, outcomes, calls, fileMap, reqData, endpoint,
                   payload, path, handler, form, filename>>

CH_Cleared ==
    /\ handler = "clearHistoryHandler"
    /\ pc = "idle"
    /\ method' = "POST"
    /\ response' = JsonResponse(200, [message |-> "History cleared successfully"])
    /\ pc' = "done"
    /\ UNCHANGED <<listFetch, listData, idx, deletedCount, failedCount,
                   failedFiles, outcomes, calls, fileMap, reqData, endpoint,
                   payload, path, handler, form, filename>>

----------------------------------------------------------------------------
(* embeddingsHandler *)

EmbeddingsCall == [verb |-> "POST", path |-> "/v1/embeddings"]

EM_MethodNotAllowed ==
    /\ handler = "embeddingsHandler"
    /\ pc = "idle"
    /\ \E m \in Methods \ {"POST"} : method' = m
    /\ response' = HttpError("Method not allowed", 405)
    /\ pc' = "done"
    /\ UNCHANGED <<listFetch, listData, idx, deletedCount, failedCount,
                   failedFiles, outcomes, calls, fileMap, reqData, endpoint,
                   payload, path, handler, form, filename>>

EM_Unreadable ==
    /\ handler = "embeddingsHandler"
    /\ pc = "idle"
    /\ method' = "POST"
    /\ response' = HttpError("Invalid request", 400)
    /\ pc' = "done"
    /\ UNCHANGED <<listFetch, listData, idx, deletedCount, failedCount,
                   failedFiles, outcomes, calls, fileMap, reqData, endpoint,
                   payload, path, handler, form, filename>>

EM_ForwardFailed ==
    /\ handler = "embeddingsHandler"
    /\ pc = "idle"
    /\ method' = "POST"
    /\ calls' = Append(calls, EmbeddingsCall)
    /\ outcomes' = Append(outcomes, NetworkError)
    /\ response' = HttpError("PrivateGPT API error", 502)
    /\ pc' = "done"
    /\ UNCHANGED <<listFetch, listData, idx, deletedCount, failedCount,
                   failedFiles, fileMap, reqData, endpoint, payload, path,
                   handler, form, filename>>

EM_ForwardAnswered ==
    /\ handler = "embeddingsHandler"
    /\ pc = "idle"
    /\ method' = "POST"
    /\ calls' = Append(calls, EmbeddingsCall)
    /\ \E s \in UpstreamStatuses :
          /\ outcomes' = Append(outcomes, Answered(s))
          /\ response' = [status |-> s,
                          body |-> [type |-> "upstream", of |-> "/v1/embeddings"]]
    /\ pc' = "done"
    /\ UNCHANGED <<listFetch, listData, idx, deletedCount, failedCount,
                   failedFiles, fileMap, reqData, endpoint, payload, path,
                   handler, form, filename>>

----------------------------------------------------------------------------
(* createProxy: the reverse proxy behind /v1/ *)

PX_Unavailable ==
    /\ handler = "proxy"
    /\ pc = "idle"
    /\ \E m \in Methods : method' = m
    /\ calls' = Append(calls, [verb |-> method', path |-> path])
    /\ outcomes' = Append(outcomes, NetworkError)
    /\ response' = JsonResponse(502,
           [error |-> "PrivateGPT API is not available",
            message |-> "err.Error()"])
    /\ pc' = "done"
    /\ UNCHANGED <<listFetch, listData, idx, deletedCount, failedCount,
                   failedFiles, fileMap, reqData, endpoint, payload, path,
                   handler, form, filename>>

PX_Answered ==
    /\ handler = "proxy"
    /\ pc = "idle"
    /\ \E m \in Methods : method' = m
    /\ calls' = Append(calls, [verb |-> method', path |-> path])
    /\ \E s \in UpstreamStatuses :
          /\ outcomes' = Append(outcomes, Answered(s))
          /\ response' = [status |-> s,
                          body |-> [type |-> "upstream", of |-> "proxied"]]
    /\ pc' = "done"
    /\ UNCHANGED <<listFetch, listData, idx, deletedCount, failedCount,
                   failedFiles, fileMap, reqData, endpoint, payload, path,
                   handler, form, filename>>

----------------------------------------------------------------------------
(* staticHandler *)

\* Segment names that contain "..".
DotDotNames == {"a..b"}

\* strings.Contains(path, "..")
ContainsDotDot(p) == \E i \in DOMAIN p.segs : p.segs[i] \in DotDotNames

IsRoot(p) == p.segs = <<>> /\ p.slash

\* http.ServeFile: the file, or 404 when there is none.
ServeFile(found) ==
    IF found THEN [status |-> 200, body |-> [type |-> "file"]]
    ELSE HttpError("404 page not found", 404)

ST_Index ==
    /\ handler = "staticHandler"
    /\ pc = "idle"
    /\ \E m \in Methods : method' = m
    /\ IsRoot(path)
    /\ \E found \in BOOLEAN : response' = ServeFile(found)
    /\ pc' = "done"
    /\ UNCHANGED <<listFetch, listData, idx, deletedCount, failedCount,
                   failedFiles, outcomes, calls, fileMap, reqData, endpoint,
                   payload, path, handler, form, filename>>

ST_Forbidden ==
    /\ handler = "staticHandler"
    /\ pc = "idle"
    /\ \E m \in Methods : method' = m
    /\ ~ IsRoot(path)
    /\ ContainsDotDot(path)
    /\ response' = HttpError("Forbidden", 403)
    /\ pc' = "done"
    /\ UNCHANGED <<listFetch, listData, idx, deletedCount, failedCount,
                   failedFiles, outcomes, calls, fileMap, reqData, endpoint,
                   payload, path, handler, form, filename>>

ST_File ==
    /\ handler = "staticHandler"
    /\ pc = "idle"
    /\ \E m \in Methods : method' = m
    /\ ~ IsRoot(path)
    /\ ~ ContainsDotDot(path)
    /\ \E found \in BOOLEAN : response' = ServeFile(found)
    /\ pc' = "done"
    /\ UNCHANGED <<listFetch, listData, idx, deletedCount, failedCount,
                   failedFiles, outcomes, calls, fileMap, reqData, endpoint,
                   payload, path, handler, form, filename>>

----------------------------------------------------------------------------
(* main: the routes of the mux, behind corsMiddleware *)

\* The registrations, in the order main makes them.
Patterns ==
    << [pattern |-> Path(<<"health">>, FALSE), handler |-> "healthHandler"],
       [pattern |-> Path(<<"api", "upload">>, FALSE), handler |-> "uploadHandler"],
       [pattern |-> Path(<<"api", "chat">>, FALSE), handler |-> "chatHandler"],
       [pattern |-> Path(<<"api", "files">>, FALSE), handler |-> "listFilesHandler"],
       [pattern |-> Path(<<"api", "files">>, TRUE), handler |-> "deleteFileHandler"],
       [pattern |-> Path(<<"api", "files", "delete-all">>, FALSE),
        handler |-> "deleteAllFilesHandler"],
       [pattern |-> Path(<<"api", "processing-status">>, FALSE),
        handler |-> "processingStatusHandler"],
       [pattern |-> Path(<<"api", "clear-history">>, FALSE),
        handler |-> "clearHistoryHandler"],
       [pattern |-> Path(<<"api", "embeddings">>, FALSE),
        handler |-> "embeddingsHandler"],
       [pattern |-> Path(<<"v1">>, TRUE), handler |-> "proxy"],
       [pattern |-> Path(<<>>, TRUE), handler |-> "staticHandler"] >>

\* Paths of incoming requests: every registered pattern, document ids under
\* /api/files/, paths under /v1, and paths no pattern names.
RequestPaths ==
    {Patterns[i].pattern : i \in DOMAIN Patterns}
        \cup {Path(<<"api", "files", "a">>, FALSE),
              Path(<<"api", "files", "%">>, FALSE),
              Path(<<"v1", "chat", "completions">>, FALSE),
              Path(<<"v1">>, FALSE),
              Path(<<"api", "chat">>, TRUE),
              Path(<<"api", "other">>, FALSE),
              Path(<<"index.html">>, FALSE),
              Path(<<"a..b">>, FALSE)}

IsPrefix(a, b) == Len(a) <= Len(b) /\ SubSeq(b, 1, Len(a)) = a

\* A pattern ending in a slash names a subtree, any other exactly one path.
Matches(pat, p) ==
    IF pat.slash
    THEN IsPrefix(pat.segs, p.segs) /\ (Len(p.segs) > Len(pat.segs) \/ p.slash)
    ELSE pat = p

\* Order of the patterns that match one path by their length as strings.
PatternLen(pat) == 2 * Len(pat.segs) + (IF pat.slash THEN 1 ELSE 0)

Registered(pat) == \E i \in DOMAIN Patterns : Patterns[i].pattern = pat

\* A path with no pattern of its own whose subtree is registered is
\* redirected to the path with a trailing slash.
ShouldRedirect(p) ==
    /\ ~ p.slash
    /\ ~ Registered(p)
    /\ Registered(Path(p.segs, TRUE))

\* Variant: the first registered pattern that matches wins.
Route_FirstRegistered(p) ==
    LET first == CHOOSE i \in DOMAIN Patterns :
                     /\ Matches(Patterns[i].pattern, p)
                     /\ \A j \in 1..(i - 1) : ~ Matches(Patterns[j].pattern, p)
    IN Patterns[first].handler

\* ServeMux: the longest pattern that matches the path wins.
Route(p) ==
    IF ShouldRedirect(p) THEN "redirect"
    ELSE LET longest == CHOOSE i \in DOMAIN Patterns :
                            /\ Matches(Patterns[i].pattern, p)
                            /\ \A j \in DOMAIN Patterns :
                                  Matches(Patterns[j].pattern, p)
                                      => PatternLen(Patterns[j].pattern)
                                             <= PatternLen(Patterns[i].pattern)
         IN Patterns[longest].handler

Init ==
    /\ InitCommon
    /\ path = NoPath
    /\ handler = ""

\* corsMiddleware answers a preflight itself; the mux never sees it.
CORS_Preflight ==
    /\ handler = ""
    /\ pc = "idle"
    /\ method' = "OPTIONS"
    /\ \E p \in RequestPaths : path' = p
    /\ response' = [status |-> 200, body |-> [type |-> "empty"]]
    /\ pc' = "done"
    /\ UNCHANGED <<listFetch, listData, idx, deletedCount, failedCount,
                   failedFiles, outcomes, calls, fileMap, reqData, endpoint,
                   payload, handler, form, filename>>

\* Any other request goes to the handler the mux selects for its path.
Dispatch ==
    /\ handler = ""
    /\ pc = "idle"
    /\ \E p \in RequestPaths :
          /\ path' = p
          /\ handler' = Route(p)
    /\ UNCHANGED <<pc, method, listFetch, listData, idx, deletedCount,
                   failedCount, failedFiles, outcomes, calls, fileMap,
                   reqData, endpoint, payload, response, form, filename>>

RD_MovedPermanently ==
    /\ handler = "redirect"
    /\ pc = "idle"
    /\ \E m \in Methods : method' = m
    /\ response' = [status |-> 301,
                    body |-> [type |-> "redirect", to |-> Path(path.segs, TRUE)]]
    /\ pc' = "done"
    /\ UNCHANGED <<listFetch, listData, idx, deletedCount, failedCount,
                   failedFiles, outcomes, calls, fileMap, reqData, endpoint,
                   payload, path, handler, form, filename>>

Next ==
    \/ CORS_Preflight
    \/ Dispatch
    \/ RD_MovedPermanently
    \/ H_Unavailable
    \/ H_Ok
    \/ UP_MethodNotAllowed
    \/ UP_ParseFailed
    \/ UP_NoFile
    \/ UP_Unsupported
    \/ UP_Accepted
    \/ UP_ForwardFailed
    \/ UP_ForwardAnswered
    \/ Chat_MethodNotAllowed
    \/ Chat_InvalidBody
    \/ Chat_Decoded
    \/ Chat_Search
    \/ Chat_Basic
    \/ Chat_Summarize
    \/ Chat_Rag
    \/ Chat_ForwardFailed
    \/ Chat_ForwardAnswered
    \/ LF_MethodNotAllowed
    \/ LF_ListUnavailable
    \/ LF_ListStatus
    \/ LF_ListUndecodable
    \/ LF_Deduplicated
    \/ DF_MethodNotAllowed
    \/ DF_MissingId
    \/ DF_RequestError
    \/ DF_NetworkError
    \/ DF_Answered
    \/ DA_MethodNotAllowed
    \/ DA_ListUnavailable
    \/ DA_ListStatus
    \/ DA_ListUndecodable
    \/ DA_ListEmpty
    \/ DA_ListFetched
    \/ DA_DeleteRequestError
    \/ DA_DeleteNetworkError
    \/ DA_DeleteAnswered
    \/ DA_Respond
    \/ PS_MethodNotAllowed
    \/ PS_MissingFilename
    \/ PS_ListUnavailable
    \/ PS_ListStatus
    \/ PS_ListUndecodable
    \/ PS_Scanned
    \/ CH_MethodNotAllowed
    \/ CH_Cleared
    \/ EM_MethodNotAllowed
    \/ EM_Unreadable
    \/ EM_ForwardFailed
    \/ EM_ForwardAnswered
    \/ PX_Unavailable
    \/ PX_Answered
    \/ ST_Index
    \/ ST_Forbidden
    \/ ST_File

Spec == Init /\ [][Next]_vars

----------------------------------------------------------------------------
(* Properties of deleteAllFilesHandler *)

FetchedOk == listFetch = [err |-> FALSE, status |-> 200, decodable |-> TRUE]

FetchFailed == listFetch # NoFetch /\ ~ FetchedOk

DeletedIndexes == {i \in DOMAIN outcomes : outcomes[i] = Answered(200)}

\* Display names of the records whose delete did not return 200, in list order.
RECURSIVE FailedNames(_, _)
FailedNames(l, o) ==
    IF l = <<>> \/ o = <<>> THEN <<>>
    ELSE IF Head(o) = Answered(200)
         THEN FailedNames(Tail(l), Tail(o))
         ELSE <<IF Head(l).doc_metadata.present /\ Head(l).doc_metadata.hasName
                THEN Head(l).doc_metadata.name ELSE "Unknown">>
              \o FailedNames(Tail(l), Tail(o))

FailedFilesOf(obj) ==
    IF "failed_files" \in DOMAIN obj THEN obj.failed_files ELSE <<>>

\* C1: after a successful list fetch of N >= 1 records, whatever the
\* per-record delete outcomes, the response is 200 with success=true,
\* deleted_count = number of deletes answered 200, failed_count = number of
\* all other records, deleted_count + failed_count = total_files = N, and the
\* failed list holds the display name of each failed record in list order
\* (the failed_files key is left out when no delete failed).
C1_BulkDeleteAccounting ==
    (pc = "done" /\ FetchedOk /\ Len(listData) >= 1) =>
        /\ response.status = 200
        /\ response.body.type = "json"
        /\ LET b == response.body.json
           IN /\ b.success = TRUE
              /\ b.deleted_count = Cardinality(DeletedIndexes)
              /\ b.failed_count = Len(listData) - Cardinality(DeletedIndexes)
              /\ b.deleted_count + b.failed_count = b.total_files
              /\ b.total_files = Len(listData)
              /\ FailedFilesOf(b) = FailedNames(listData, outcomes)
              /\ Len(FailedFilesOf(b)) = b.failed_count

C1_Witness ==
    /\ pc = "done" /\ FetchedOk /\ Len(listData) = 3
    /\ outcomes[1] = NetworkError
    /\ outcomes[2] = Answered(200)
    /\ outcomes[3] = Answered(404)
    /\ response.body.json.failed_files = <<"Unknown", "a.txt">>

\* Delete calls for the records of l whose request can be constructed.
RECURSIVE ConstructibleCalls(_)
ConstructibleCalls(l) ==
    IF l = <<>> THEN <<>>
    ELSE IF NewRequestFails(Head(l).doc_id)
         THEN ConstructibleCalls(Tail(l))
         ELSE <<DeleteCall(Head(l).doc_id)>> \o ConstructibleCalls(Tail(l))

\* C2 as stated: exactly one delete call is issued for each record of the
\* fetched list, in list order, and the response comes after all of them.
C2_OneCallPerRecord ==
    (pc = "done" /\ FetchedOk /\ Len(listData) >= 1) =>
        /\ Len(outcomes) = Len(listData)
        /\ calls = [i \in 1..Len(listData) |-> DeleteCall(listData[i].doc_id)]

\* C2 (amended): a failed delete never aborts the loop.  Records are
\* processed one by one in list order; each record whose delete request can
\* be constructed gets exactly one delete call (no retry), a record whose
\* request cannot be constructed gets none and is only counted as failed, and
\* the response is produced only after all N records have been processed.
C2_SequentialNoAbort ==
    (FetchedOk /\ Len(listData) >= 1) =>
        /\ idx \in 1..(Len(listData) + 1)
        /\ Len(outcomes) = idx - 1
        /\ calls = ConstructibleCalls(SubSeq(listData, 1, idx - 1))
        /\ \A i \in DOMAIN outcomes :
              (outcomes[i] = RequestError) <=> NewRequestFails(listData[i].doc_id)
        /\ (response # NoResponse) => (Len(outcomes) = Len(listData))
        /\ (pc = "done") => (response # NoResponse)

C2_Witness ==
    /\ pc = "done" /\ FetchedOk /\ Len(listData) = 3
    /\ outcomes[1] = NetworkError
    /\ outcomes[2] = RequestError
    /\ outcomes[3] = Answered(200)
    /\ Len(calls) = 2
    /\ DisplayName(listData[1]) = DisplayName(listData[3])

\* C3: with an empty upstream list the result is a success holding
\* deleted_count 0, failed_count 0 and total_files 0, and no delete call is
\* issued.
C3_EmptyListZeroResult ==
    (pc = "done" /\ FetchedOk /\ listData = <<>>) =>
        /\ response.status = 200
        /\ response.body.json.success = TRUE
        /\ response.body.json.deleted_count = 0
        /\ response.body.json.failed_count = 0
        /\ "total_files" \in DOMAIN response.body.json
        /\ response.body.json.total_files = 0
        /\ calls = <<>>

\* C4 as stated: a failed list fetch is reported with 502 or 500 and no
\* delete call is issued.
C4_ListFailureIs502Or500 ==
    (pc = "done" /\ FetchFailed) =>
        /\ response.status \in {502, 500}
        /\ calls = <<>>

\* C4 (amended): a failed list fetch is reported immediately and no delete
\* call is issued: 502 when the upstream is unreachable, the upstream's own
\* status when it answers non-200, 500 when the body cannot be decoded.
C4_ListFailureReported ==
    FetchFailed =>
        /\ pc = "done"
        /\ response.body.type = "json"
        /\ response.body.json.success = FALSE
        /\ response.status =
              IF listFetch.err THEN 502
              ELSE IF listFetch.status # 200 THEN listFetch.status
              ELSE 500
        /\ calls = <<>>
        /\ outcomes = <<>>

C4_Witness ==
    /\ pc = "done" /\ FetchFailed
    /\ listFetch.status = 404
    /\ response.status = 404
    /\ calls = <<>>

----------------------------------------------------------------------------
(* Properties of listFilesHandler *)

ListServed ==
    /\ pc = "done"
    /\ listFetch = [err |-> FALSE, status |-> 200, decodable |-> TRUE]
    /\ response.status = 200

\* The filename key of a record: metadata.file_name when it is a string,
\* else the "Unknown" sentinel.
KeyOf(r) ==
    IF r.doc_metadata.present /\ r.doc_metadata.hasName
    THEN r.doc_metadata.name ELSE "Unknown"

Nameless(r) == ~ (r.doc_metadata.present /\ r.doc_metadata.hasName)

ViewRecords == {response.body.json.data[i] : i \in DOMAIN response.body.json.data}

InputRecords == {listData[i] : i \in DOMAIN listData}

Reorderings(l) == {[i \in DOMAIN l |-> l[p[i]]] : p \in Permutations(DOMAIN l)}

\* C5: the view returned by GET /api/files holds exactly one record per
\* distinct filename key of the upstream list, that record has the
\* lexicographically greatest doc_id among the input records sharing the
\* key, and deduplicating any permutation of the input retains the same set.
C5_DedupKeepsGreatestDocId ==
    ListServed =>
        /\ Len(response.body.json.data) = Cardinality(ViewRecords)
        /\ ViewRecords \subseteq InputRecords
        /\ \A r \in InputRecords :
              \E v \in ViewRecords :
                  /\ KeyOf(v) = KeyOf(r)
                  /\ v = r \/ StrLess(r.doc_id, v.doc_id)
        /\ \A v, w \in ViewRecords : KeyOf(v) = KeyOf(w) => v = w
        /\ \A l \in Reorderings(listData) :
              LET m == Deduplicate(EmptyMap, l)
              IN {m[k] : k \in DOMAIN m} = ViewRecords

C5_Witness ==
    /\ ListServed
    /\ Len(listData) = 3
    /\ KeyOf(listData[1]) = "a.txt"
    /\ KeyOf(listData[2]) = "a.txt"
    /\ KeyOf(listData[3]) = "a.txt"
    /\ StrLess(listData[1].doc_id, listData[2].doc_id)
    /\ StrLess(listData[3].doc_id, listData[2].doc_id)
    /\ response.body.json.data = <<listData[2]>>

\* C6 as stated: of any two records without a file_name, exactly one - the
\* one with the greater doc_id - appears in the view.
C6_OneNamelessRecordAppears ==
    ListServed =>
        \A r, q \in InputRecords :
            (Nameless(r) /\ Nameless(q) /\ StrLess(r.doc_id, q.doc_id)) =>
                /\ r \notin ViewRecords
                /\ \E v \in ViewRecords : Nameless(v)

\* C6 (amended): every record without a file_name is keyed under the
\* "Unknown" sentinel, so any two such records collide into a single slot and
\* at most one of them appears in the view, never the one with the smaller
\* doc_id; the slot holds the record with the greatest doc_id among the
\* nameless records and the records whose file_name is literally "Unknown",
\* so a nameless record appears unless a file named "Unknown" has a greater
\* doc_id than all of them.
C6_NamelessCollideOnUnknown ==
    ListServed =>
        /\ \A r \in InputRecords :
              Nameless(r) =>
                  /\ "Unknown" \in DOMAIN fileMap
                  /\ r = fileMap["Unknown"] \/ StrLess(r.doc_id, fileMap["Unknown"].doc_id)
                  /\ (r \in ViewRecords) <=> (r = fileMap["Unknown"])
        /\ \A r, q \in InputRecords :
              (Nameless(r) /\ Nameless(q) /\ StrLess(r.doc_id, q.doc_id)) =>
                  r \notin ViewRecords
        /\ Cardinality({v \in ViewRecords : Nameless(v)}) <= 1
        /\ (\E v \in ViewRecords : Nameless(v)) <=>
              \E r \in InputRecords :
                  /\ Nameless(r)
                  /\ \A q \in InputRecords :
                        (q # r /\ q.doc_metadata = NamedMeta("Unknown"))
                            => StrLess(q.doc_id, r.doc_id)

C6_Witness ==
    /\ ListServed
    /\ Len(listData) = 2
    /\ listData[1].doc_metadata = NilMeta
    /\ listData[2].doc_metadata = NoNameMeta
    /\ StrLess(listData[2].doc_id, listData[1].doc_id)
    /\ response.body.json.data = <<listData[1]>>

----------------------------------------------------------------------------
(* Properties of chatHandler *)

\* The payload of the request being served has been constructed.
Constructed(mode) ==
    /\ pc \in {"chat_send", "done"}
    /\ reqData.decoded
    /\ reqData.config.mode = mode

\* C7: for every chat request with mode "basic", whatever use_context and
\* selected_docs are, the payload has use_context=false,
\* include_sources=false and no context filter.
C7_BasicNeverUsesContext ==
    Constructed("basic") =>
        /\ payload.use_context = FALSE
        /\ payload.include_sources = FALSE
        /\ "context_filter" \notin DOMAIN payload
        /\ \A c \in DOMAIN calls : calls[c].body = payload

C7_Witness ==
    /\ Constructed("basic")
    /\ pc = "done"
    /\ Len(calls) = 1
    /\ reqData.config.use_context = TRUE
    /\ reqData.config.selected_docs = <<"d2", "d1">>
    /\ DOMAIN payload = {"model", "messages", "use_context", "include_sources", "stream"}

Min(a, b) == IF a < b THEN a ELSE b

\* C8: in basic mode the payload's messages are the system-prompt turn if a
\* system prompt is given, then the last min(H,4) turns of the history in
\* their original order, then the new user turn as the final message.
C8_BasicMessageSequence ==
    Constructed("basic") =>
        LET h == reqData.history
            H == Len(h)
            k == Min(H, 4)
            s == IF reqData.system_prompt = "" THEN 0 ELSE 1
            m == payload.messages
        IN /\ Len(m) = s + k + 1
           /\ (s = 1) => m[1] = [role |-> "system", content |-> reqData.system_prompt]
           /\ \A i \in 1..k : m[s + i] = h[H - k + i]
           /\ m[Len(m)] = [role |-> "user", content |-> reqData.message]

C8_Witness ==
    /\ Constructed("basic")
    /\ Len(reqData.history) = 5
    /\ reqData.history[1] # reqData.history[5]
    /\ reqData.system_prompt = "be brief"
    /\ Len(payload.messages) = 6
    /\ payload.messages[2] = reqData.history[2]

\* C9: in rag mode the payload carries a context filter iff use_context is
\* true and selected_docs is non-empty, otherwise the key is absent;
\* use_context equals the config value and include_sources is true.
C9_RagContextFilter ==
    Constructed("rag") =>
        /\ ("context_filter" \in DOMAIN payload) <=>
              (reqData.config.use_context /\ reqData.config.selected_docs # <<>>)
        /\ ("context_filter" \in DOMAIN payload) =>
              payload.context_filter = [docs_ids |-> reqData.config.selected_docs]
        /\ payload.use_context = reqData.config.use_context
        /\ payload.include_sources = TRUE

C9_Witness ==
    /\ Constructed("rag")
    /\ reqData.config.use_context = FALSE
    /\ reqData.config.selected_docs = <<"d1">>
    /\ "context_filter" \notin DOMAIN payload
    /\ payload.use_context = FALSE

\* The search translation of a request that agrees with the one being served
\* on message and selected_docs and differs freely in everything else.
SearchVariants ==
    {TranslateSearch(
         [decoded |-> TRUE,
          message |-> reqData.message,
          config |-> [mode |-> "search", use_context |-> uc,
                      selected_docs |-> reqData.config.selected_docs,
                      max_tokens |-> mt, temperature |-> tp],
          system_prompt |-> sp,
          history |-> h]) :
        uc \in BOOLEAN, mt \in TokenLimits, tp \in Temperatures,
        sp \in SystemPrompts, h \in Histories}

\* C10: in search mode two requests with the same message and the same
\* selected_docs get the same endpoint and the same payload, whatever their
\* history, system_prompt, use_context, max_tokens and temperature.
C10_SearchDependsOnMessageAndDocs ==
    (Constructed("search") /\ pc = "chat_send") =>
        SearchVariants = {[endpoint |-> endpoint, payload |-> payload]}

C10_Witness ==
    /\ Constructed("search")
    /\ pc = "chat_send"
    /\ Len(reqData.history) = 3
    /\ reqData.system_prompt = "be brief"
    /\ reqData.config.use_context = FALSE
    /\ reqData.config.selected_docs = <<"d1">>
    /\ payload = [text |-> reqData.message, limit |-> 10, prev_next_chunks |-> 1,
                  context_filter |-> [docs_ids |-> <<"d1">>]]

PayloadBuilt == pc \in {"chat_send", "done"} /\ reqData.decoded

\* C11 as stated: in all four modes the payload has stream set to false.
C11_StreamFalseInEveryMode ==
    PayloadBuilt => ("stream" \in DOMAIN payload /\ payload.stream = FALSE)

\* C11 (amended): no payload asks for streaming.  The chat-completion
\* payloads (rag and every unrecognised mode, basic) carry stream=false; the
\* search and summarize payloads carry no stream key at all.
C11_NeverStreams ==
    PayloadBuilt =>
        IF reqData.config.mode \in {"search", "summarize"}
        THEN "stream" \notin DOMAIN payload
        ELSE "stream" \in DOMAIN payload /\ payload.stream = FALSE

C11_Witness ==
    /\ PayloadBuilt
    /\ pc = "done"
    /\ reqData.config.mode = "summarize"
    /\ DOMAIN payload = {"model", "prompt", "use_context", "include_sources",
                         "context_filter", "max_tokens"}
    /\ calls[1].body = payload

RecognisedModes == {"rag", "search", "basic", "summarize"}

\* The same request with mode "rag".
AsRag(rd) == [rd EXCEPT !.config.mode = "rag"]

\* C12: a chat request whose mode is absent or not one of rag, search,
\* basic, summarize is translated to the endpoint and payload of the same
\* request with mode "rag".
C12_UnknownModeIsRag ==
    (PayloadBuilt /\ reqData.config.mode \notin RecognisedModes) =>
        /\ endpoint = "/v1/chat/completions"
        /\ [endpoint |-> endpoint, payload |-> payload] = TranslateRag(AsRag(reqData))
        /\ payload.messages =
               SystemTurn(reqData) \o reqData.history
                   \o <<[role |-> "user", content |-> reqData.message]>>
        /\ payload.include_sources = TRUE
        /\ payload.use_context = reqData.config.use_context

C12_Witness ==
    /\ PayloadBuilt
    /\ reqData.config.mode = ""
    /\ Len(reqData.history) = 5
    /\ reqData.config.use_context
    /\ reqData.config.selected_docs = <<"d1">>
    /\ Len(payload.messages) = 6
    /\ payload.context_filter = [docs_ids |-> <<"d1">>]

----------------------------------------------------------------------------
(* Properties of uploadHandler *)

\* An upload whose file part was read: the extension check has been reached.
FileReceived ==
    /\ handler = "uploadHandler"
    /\ pc \in {"up_send", "done"}
    /\ form.wellFormed /\ form.hasFile

Unsupported == [status |-> 400, body |-> [type |-> "text", text |-> "File type not supported"]]

\* The extensions the bridge accepts, without the dot.
ClaimedExtensions ==
    {<<"p", "d", "f">>, <<"d", "o", "c", "x">>, <<"d", "o", "c">>,
     <<"t", "x", "t">>, <<"m", "d">>, <<"h", "t", "m", "l">>, <<"c", "s", "v">>,
     <<"j", "s", "o", "n">>, <<"p", "p", "t", "x">>, <<"p", "p", "t">>,
     <<"e", "p", "u", "b">>, <<"i", "p", "y", "n", "b">>}

\* The part of the name after its last dot, lowered; <<"?">> without a dot.
LoweredExtension(name) ==
    IF \E i \in DOMAIN name : name[i] = "."
    THEN LET d == CHOOSE i \in DOMAIN name :
                     name[i] = "." /\ \A j \in (i + 1)..Len(name) : name[j] # "."
         IN [k \in 1..(Len(name) - d) |->
                LET c == name[d + k]
                IN IF c = "P" THEN "p" ELSE IF c = "D" THEN "d" ELSE c]
    ELSE <<"?">>

\* C13: an upload whose extension, compared case-insensitively, is not an
\* allowed one is answered 400 and no upstream call is made; an allowed
\* extension in any letter case passes the check and the file is forwarded.
C13_ExtensionCheck ==
    FileReceived =>
        IF LoweredExtension(form.name) \in ClaimedExtensions
        THEN /\ response # Unsupported
             /\ (pc = "done") => (calls = <<IngestCall(form)>>)
        ELSE /\ pc = "done"
             /\ response = Unsupported
             /\ calls = <<>>

C13_Witness ==
    /\ FileReceived
    /\ pc = "done"
    /\ form.name = <<"x", ".", "P", "d", "f">>
    /\ response.status = 200
    /\ Len(calls) = 1

\* C14: an upload whose file is larger than the 50 MiB ceiling is rejected
\* and never forwarded to the upstream.
C14_OversizedUploadRejected ==
    (FileReceived /\ form.size > MAX_FILE_SIZE) =>
        /\ pc = "done"
        /\ response.status = 400
        /\ calls = <<>>

----------------------------------------------------------------------------
(* Properties of processingStatusHandler *)

StatusServed ==
    /\ handler = "processingStatusHandler"
    /\ pc = "done"
    /\ FetchedOk

NamedAs(file, name) ==
    /\ file.doc_metadata.present
    /\ file.doc_metadata.hasName
    /\ file.doc_metadata.name = name

\* C15: when the list fetch succeeds, exists is true iff some upstream record
\* has metadata file_name equal to the requested filename, and processing is
\* the negation of exists; a filename absent from the list reports
\* exists = FALSE and processing = TRUE.
C15_ExistsIffListed ==
    StatusServed =>
        /\ response.status = 200
        /\ response.body.json.filename = filename
        /\ response.body.json.exists
              <=> (\E i \in DOMAIN listData : NamedAs(listData[i], filename))
        /\ response.body.json.processing = ~ response.body.json.exists

C15_Witness ==
    /\ StatusServed
    /\ filename = "Unknown"
    /\ Len(listData) = 2
    /\ listData[1].doc_metadata = NoNameMeta
    /\ listData[2].doc_metadata = NamedMeta("a.txt")
    /\ response.body.json.exists = FALSE
    /\ response.body.json.processing = TRUE

----------------------------------------------------------------------------
(* Properties of the whole server *)

\* The response is an error whose body the bridge wrote itself.
BridgeError ==
    /\ pc = "done"
    /\ response.status >= 400
    /\ response.body.type # "upstream"

\* C16: every error response the bridge produces, on every endpoint and
\* every failure path, has a JSON body with at least an "error" key.
C16_ErrorBodiesAreJson ==
    BridgeError =>
        /\ response.body.type = "json"
        /\ "error" \in DOMAIN response.body.json

ListingHandlers ==
    {"listFilesHandler", "deleteAllFilesHandler", "processingStatusHandler"}

ForwardingHandlers ==
    {"deleteFileHandler", "chatHandler", "uploadHandler", "embeddingsHandler"}

\* The upstream answered the handler's list fetch with a non-200 status.
ListRefused ==
    /\ handler \in ListingHandlers
    /\ pc = "done"
    /\ ~ listFetch.err
    /\ listFetch.status \notin {0, 200}

\* The upstream answered the handler's forwarded call with a non-200 status.
ForwardRefused ==
    /\ handler \in ForwardingHandlers
    /\ pc = "done"
    /\ outcomes # <<>>
    /\ outcomes[Len(outcomes)].err = ""
    /\ outcomes[Len(outcomes)].status # 200

\* C17: when the upstream answers a bridge-issued call with a non-200 status
\* and its own error body, the response carries that status and that body
\* unchanged, in the list, delete-all listing, processing-status, single
\* delete, chat, upload and embeddings handlers alike.
C17_UpstreamErrorPassedThrough ==
    /\ ListRefused =>
          /\ response.status = listFetch.status
          /\ response.body.type = "upstream"
    /\ ForwardRefused =>
          /\ response.status = outcomes[Len(outcomes)].status
          /\ response.body.type = "upstream"

\* The handler each named path is registered for.
NamedHandlers ==
    [p \in {Path(<<"api", "chat">>, FALSE), Path(<<"api", "upload">>, FALSE),
            Path(<<"api", "files">>, FALSE),
            Path(<<"api", "files", "delete-all">>, FALSE),
            Path(<<"api", "processing-status">>, FALSE),
            Path(<<"api", "clear-history">>, FALSE),
            Path(<<"api", "embeddings">>, FALSE)} |->
        CASE p.segs = <<"api", "chat">> -> "chatHandler"
          [] p.segs = <<"api", "upload">> -> "uploadHandler"
          [] p.segs = <<"api", "files">> -> "listFilesHandler"
          [] p.segs = <<"api", "files", "delete-all">> -> "deleteAllFilesHandler"
          [] p.segs = <<"api", "processing-status">> -> "processingStatusHandler"
          [] p.segs = <<"api", "clear-history">> -> "clearHistoryHandler"
          [] p.segs = <<"api", "embeddings">> -> "embeddingsHandler"]

\* A request that the mux has dispatched.
Dispatched == handler # ""

====
